---- MODULE Spec2Model ----
(***************************************************************************)
(* A model of the notebook Custom_modules.ipynb:                           *)
(*   - the Linear layer (parameters w, b; forward = matmul(x, w) + b),     *)
(*   - the training loop (shuffle, forward, loss, zero_grad, backward,     *)
(*     optimizer step, history.append),                                    *)
(*   - the MyLambda wrapper layer.                                         *)
(* Tensors hold integers: a rank-2 tensor is a sequence of rows, a rank-1  *)
(* tensor is a sequence of numbers.  Python indices of batches (0-based)   *)
(* are kept; positions inside a tensor are 1-based.                        *)
(***************************************************************************)
EXTENDS Integers, Sequences, FiniteSets, TLC

(* ---- bounds of the model ---------------------------------------------- *)
\* the notebook's n_batches / batch_size / epoches, scaled down
n_batches == 2
batch_size == 2
epoches == 3
\* generator seeds 0..MaxSeed stand for the draws of torch.rand / torch.randn
MaxSeed == 1
\* torch.rand(...) * 100 yields values in 0..MaxX here
MaxX == 6
\* explicit units / input_dim arguments range over 1..MaxDim
MaxDim == 2
\* inputs of the layer have 1..MaxRows rows
MaxRows == 2
\* number of training steps applied to a free-standing layer
MaxRounds == 1
\* MyLambda: functions x -> k*x + c with k in 0..MaxK, c in 0..MaxC
MaxK == 2
MaxC == 1
\* MyLambda: inputs are vectors of length 1..MaxLen over 0..MaxV
MaxLen == 2
MaxV == 2
\* MyLambda: number of invocations of one layer
MaxCalls == 2

(* ---- program constants ------------------------------------------------ *)
DefaultUnits == 32
DefaultInputDim == 32
TrueSlope == 3
TrueBias == 5

\* Python's None (an unset .grad, an optimizer state not yet created)
None == << >>

VARIABLES
    pc,         \* position in the running cell
    e,          \* epoch index (for e in range(epoches))
    t,          \* batch index (for t in range(n_batches))
    x,          \* inputs, shape (n_batches, batch_size, 1)
    y,          \* targets, same shape
    rand_perm,  \* the permutation drawn for the current epoch
    x_perm,     \* x[rand_perm]
    y_perm,     \* y[rand_perm]
    kwargs,     \* the arguments the Linear layer was constructed with
    model,      \* the Linear layer: [w |-> matrix, b |-> vector]
    grad,       \* the .grad of the parameters: [w |-> .., b |-> ..]
    optimizer,  \* [params |-> names, step |-> n, exp_avg |-> state]
    x_in,       \* the input of the last forward pass (saved for backward)
    y_pred,     \* result of the last forward pass
    loss,       \* result of the last criterion call
    history,    \* list of recorded losses
    ops,        \* log of the batch-level operations executed so far
    processed,  \* the batches fed to the model in the current epoch
    n_shuffles, \* number of permutations drawn so far
    model_pre,  \* the parameters as they were before the last optimizer step
    func,       \* MyLambda.func
    func_arg,   \* the function handed to MyLambda's constructor
    inputs,     \* argument of the last MyLambda call
    outputs,    \* result of the last MyLambda call
    calls       \* number of MyLambda calls so far

vars == << pc, e, t, x, y, rand_perm, x_perm, y_perm, kwargs, model, grad, optimizer,
           x_in, y_pred, loss, history, ops, processed, n_shuffles, model_pre,
           func, func_arg, inputs, outputs, calls >>

(* ---- tensor arithmetic (the parts of torch the notebook uses) --------- *)
RECURSIVE SumSeq(_)
SumSeq(s) == IF s = << >> THEN 0 ELSE s[1] + SumSeq(Tail(s))

Sign(v) == IF v > 0 THEN 1 ELSE IF v < 0 THEN -1 ELSE 0

\* shape of a rank-2 tensor with at least one row, and of a rank-1 tensor
Shape2(m) == << Len(m), Len(m[1]) >>
Shape1(v) == << Len(v) >>

\* torch.zeros((n,)) and torch.zeros((r, c))
Zeros1(n) == [j \in 1..n |-> 0]
Zeros2(r, c) == [i \in 1..r |-> [j \in 1..c |-> 0]]

\* torch.rand / torch.randn: entry k of the stream of generator state seed
Rand(seed, k) == (seed + k) % (MaxX + 1)
Randn(seed, k) == ((seed + k) % 3) - 1
\* torch.randn((r, c))
Randn2(seed, r, c) == [i \in 1..r |-> [j \in 1..c |-> Randn(seed, (i - 1) * c + j)]]
\* torch.rand((r, c)) * 100
Rand2(seed, r, c) == [i \in 1..r |-> [j \in 1..c |-> Rand(seed, (i - 1) * c + j)]]

\* torch.matmul(a, m) for a of shape (n, d) and m of shape (d, u)
MatmulNoop(a, m) == a
Matmul(a, m) ==
    [i \in 1..Len(a) |->
        [j \in 1..Len(m[1]) |-> SumSeq([k \in 1..Len(m) |-> a[i][k] * m[k][j]])]]

\* a + v with v broadcast over the rows of a
AddRow(a, v) == [i \in 1..Len(a) |-> [j \in 1..Len(a[i]) |-> a[i][j] + v[j]]]

MatAdd(a, c) == [i \in 1..Len(a) |-> [j \in 1..Len(a[i]) |-> a[i][j] + c[i][j]]]
VecAdd(a, c) == [j \in 1..Len(a) |-> a[j] + c[j]]
MatSub(a, c) == [i \in 1..Len(a) |-> [j \in 1..Len(a[i]) |-> a[i][j] - c[i][j]]]
VecSub(a, c) == [j \in 1..Len(a) |-> a[j] - c[j]]
MatSign(a) == [i \in 1..Len(a) |-> [j \in 1..Len(a[i]) |-> Sign(a[i][j])]]
VecSign(a) == [j \in 1..Len(a) |-> Sign(a[j])]

(* ---- class Linear ------------------------------------------------------ *)
\* Linear.__init__(units=32, input_dim=32); kw holds the arguments given
Units(kw) == IF "units" \in DOMAIN kw THEN kw.units ELSE DefaultUnits
InputDim(kw) ==
    IF "input_dim" \in DOMAIN kw THEN kw.input_dim ELSE DefaultInputDim

LinearInitSwapped(kw, seed) ==
    [w |-> Randn2(seed, Units(kw), InputDim(kw)),
     b |-> Zeros1(Units(kw))]
LinearInit(kw, seed) ==
    [w |-> Randn2(seed, InputDim(kw), Units(kw)),
     b |-> Zeros1(Units(kw))]

\* Linear.forward(x)
ForwardNoBias(m, a) == Matmul(a, m.w)
Forward(m, a) == AddRow(Matmul(a, m.w), m.b)

\* model.parameters(): the attributes registered as torch.nn.Parameter
ParametersOnlyW(m) == {"w"}
Parameters(m) == DOMAIN m

(* ---- loss, gradients, optimizer ---------------------------------------- *)
\* torch.nn.MSELoss(reduction='sum')(pred, target)
MSELoss(pred, target) ==
    SumSeq([i \in 1..Len(pred) |->
        SumSeq([j \in 1..Len(pred[i]) |->
            (pred[i][j] - target[i][j]) * (pred[i][j] - target[i][j])])])

\* d loss / d pred
DLoss(pred, target) ==
    [i \in 1..Len(pred) |-> [j \in 1..Len(pred[i]) |-> 2 * (pred[i][j] - target[i][j])]]

\* gradient of the loss of one forward pass with respect to w and to b
BatchGradW(a, pred, target) ==
    LET d == DLoss(pred, target)
    IN  [k \in 1..Len(a[1]) |->
            [j \in 1..Len(pred[1]) |-> SumSeq([i \in 1..Len(a) |-> a[i][k] * d[i][j]])]]
BatchGradB(pred, target) ==
    LET d == DLoss(pred, target)
    IN  [j \in 1..Len(pred[1]) |-> SumSeq([i \in 1..Len(pred) |-> d[i][j]])]

\* loss.backward(): adds the gradient of this loss to each parameter's .grad
Backward(g, a, pred, target) ==
    [w |-> IF g.w = None THEN BatchGradW(a, pred, target)
           ELSE MatAdd(g.w, BatchGradW(a, pred, target)),
     b |-> IF g.b = None THEN BatchGradB(pred, target)
           ELSE VecAdd(g.b, BatchGradB(pred, target))]

\* optimizer.zero_grad(): resets the .grad of the optimizer's parameters, to
\* zeros or to None depending on the torch version (set_to_none)
ZeroGradKeep(g, params, set_to_none) == g
ZeroGrad(g, params, set_to_none) ==
    [w |-> IF "w" \notin params THEN g.w
           ELSE IF set_to_none \/ g.w = None THEN None
           ELSE Zeros2(Len(g.w), Len(g.w[1])),
     b |-> IF "b" \notin params THEN g.b
           ELSE IF set_to_none \/ g.b = None THEN None
           ELSE Zeros1(Len(g.b))]

\* torch.optim.Adam(model.parameters(), lr=1e-2)
AdamInit(params) == [params |-> params, step |-> 0, exp_avg |-> [w |-> None, b |-> None]]

\* optimizer.step() on integers: the first moment accumulates the gradient and
\* each entry of a parameter moves one unit against the sign of its moment;
\* a parameter without gradient is skipped
AdamMomentW(g, opt) ==
    IF opt.exp_avg.w = None THEN g.w ELSE MatAdd(opt.exp_avg.w, g.w)
AdamMomentB(g, opt) ==
    IF opt.exp_avg.b = None THEN g.b ELSE VecAdd(opt.exp_avg.b, g.b)
AdamTouchesW(g, opt) == "w" \in opt.params /\ g.w # None
AdamTouchesB(g, opt) == "b" \in opt.params /\ g.b # None

AdamStepModel(m, g, opt) ==
    [w |-> IF AdamTouchesW(g, opt) THEN MatSub(m.w, MatSign(AdamMomentW(g, opt))) ELSE m.w,
     b |-> IF AdamTouchesB(g, opt) THEN VecSub(m.b, VecSign(AdamMomentB(g, opt))) ELSE m.b]
AdamStepState(g, opt) ==
    [params |-> opt.params,
     step |-> opt.step + 1,
     exp_avg |-> [w |-> IF AdamTouchesW(g, opt) THEN AdamMomentW(g, opt) ELSE opt.exp_avg.w,
                  b |-> IF AdamTouchesB(g, opt) THEN AdamMomentB(g, opt) ELSE opt.exp_avg.b]]

(* ---- the synthetic data ------------------------------------------------ *)
Batches == 0..(n_batches - 1)

\* x = torch.rand((n_batches, batch_size, 1)) * 100
DataX(seed) ==
    [i \in Batches |-> [r \in 1..batch_size |-> << Rand(seed, i * batch_size + r) >>]]
\* torch.rand(y.shape) draws from [0, 1): on integers the noise is 0
Noise(seed, i, r) == 0
\* y = 3 * x + 5 ; y += torch.rand(y.shape)
DataY(xs, seed) ==
    [i \in Batches |->
        [r \in 1..batch_size |-> << TrueSlope * xs[i][r][1] + TrueBias + Noise(seed, i, r) >>]]

\* torch.randperm(n): the permutations of 0..n-1
RandPermWithRepeats(n) == [0..(n - 1) -> 0..(n - 1)]
RandPerm(n) ==
    {p \in [0..(n - 1) -> 0..(n - 1)] : \A i, j \in 0..(n - 1) : p[i] = p[j] => i = j}

\* xs[perm]
Take(xs, perm) == [k \in DOMAIN perm |-> xs[perm[k]]]

(* ---- the training cell ------------------------------------------------- *)
Seeds == 0..MaxSeed

lambdaVars == << func, func_arg, inputs, outputs, calls >>

Init ==
    /\ \E seed \in Seeds :
          /\ x = DataX(seed)
          /\ y = DataY(DataX(seed), seed)
          /\ kwargs = [units |-> 1, input_dim |-> 1]
          /\ model = LinearInit([units |-> 1, input_dim |-> 1], seed)
    /\ optimizer = AdamInit(Parameters(model))
    /\ grad = [w |-> None, b |-> None]
    /\ history = << >>
    /\ pc = IF epoches > 0 THEN "shuffle" ELSE "done"
    /\ e = 0
    /\ t = 0
    /\ rand_perm = None /\ x_perm = None /\ y_perm = None
    /\ x_in = None /\ y_pred = None /\ loss = None
    /\ ops = << >> /\ processed = << >> /\ n_shuffles = 0
    /\ model_pre = model
    /\ func = None /\ func_arg = None /\ inputs = None /\ outputs = None /\ calls = 0

\* the statement that follows each statement of the inner loop's body
PcAfterSkipZero(p) ==
    CASE p = "forward" -> "loss"
      [] p = "loss" -> "backward"
      [] p = "zero_grad" -> "backward"
      [] p = "backward" -> "step"
PcAfter(p) ==
    CASE p = "forward" -> "loss"
      [] p = "loss" -> "zero_grad"
      [] p = "zero_grad" -> "backward"
      [] p = "backward" -> "step"

\* rand_perm = torch.randperm(n_batches); x_perm = x[rand_perm]; y_perm = y[rand_perm]
Shuffle ==
    /\ pc = "shuffle"
    /\ \E p \in RandPerm(n_batches) :
          /\ rand_perm' = p
          /\ x_perm' = Take(x, p)
          /\ y_perm' = Take(y, p)
    /\ n_shuffles' = n_shuffles + 1
    /\ processed' = << >>
    /\ t' = 0
    /\ pc' = IF n_batches > 0 THEN "forward" ELSE "append"
    /\ UNCHANGED << e, x, y, kwargs, model, grad, optimizer, x_in, y_pred, loss, history,
                    ops, model_pre >>
    /\ UNCHANGED lambdaVars

\* y_pred = model(x_perm[t])
ForwardPass ==
    /\ pc = "forward"
    /\ x_in' = x_perm[t]
    /\ y_pred' = Forward(model, x_perm[t])
    /\ processed' = Append(processed, x_perm[t])
    /\ ops' = Append(ops, "forward")
    /\ pc' = PcAfter(pc)
    /\ UNCHANGED << e, t, x, y, rand_perm, x_perm, y_perm, kwargs, model, grad, optimizer,
                    loss, history, n_shuffles, model_pre >>
    /\ UNCHANGED lambdaVars

\* loss = criterion(y_pred, y_perm[t])
ComputeLoss ==
    /\ pc = "loss"
    /\ loss' = MSELoss(y_pred, y_perm[t])
    /\ ops' = Append(ops, "loss")
    /\ pc' = PcAfter(pc)
    /\ UNCHANGED << e, t, x, y, rand_perm, x_perm, y_perm, kwargs, model, grad, optimizer,
                    x_in, y_pred, history, processed, n_shuffles, model_pre >>
    /\ UNCHANGED lambdaVars

\* optimizer.zero_grad()
ZeroGradients ==
    /\ pc = "zero_grad"
    /\ \E set_to_none \in BOOLEAN : grad' = ZeroGrad(grad, optimizer.params, set_to_none)
    /\ ops' = Append(ops, "zero_grad")
    /\ pc' = PcAfter(pc)
    /\ UNCHANGED << e, t, x, y, rand_perm, x_perm, y_perm, kwargs, model, optimizer,
                    x_in, y_pred, loss, history, processed, n_shuffles, model_pre >>
    /\ UNCHANGED lambdaVars

\* loss.backward()
Backpropagate ==
    /\ pc = "backward"
    /\ grad' = Backward(grad, x_in, y_pred, y_perm[t])
    /\ ops' = Append(ops, "backward")
    /\ pc' = PcAfter(pc)
    /\ UNCHANGED << e, t, x, y, rand_perm, x_perm, y_perm, kwargs, model, optimizer,
                    x_in, y_pred, loss, history, processed, n_shuffles, model_pre >>
    /\ UNCHANGED lambdaVars

\* the inner for statement after one pass of its body
InnerLoopShort(tt) ==
    IF tt + 2 < n_batches THEN [t |-> tt + 1, pc |-> "forward"]
    ELSE [t |-> tt, pc |-> "append"]
InnerLoop(tt) ==
    IF tt + 1 < n_batches THEN [t |-> tt + 1, pc |-> "forward"]
    ELSE [t |-> tt, pc |-> "append"]

\* optimizer.step(), then the next pass of for t in range(n_batches)
OptimizerStep ==
    /\ pc = "step"
    /\ model' = AdamStepModel(model, grad, optimizer)
    /\ optimizer' = AdamStepState(grad, optimizer)
    /\ model_pre' = model
    /\ ops' = Append(ops, "step")
    /\ t' = InnerLoop(t).t
    /\ pc' = InnerLoop(t).pc
    /\ UNCHANGED << e, x, y, rand_perm, x_perm, y_perm, kwargs, grad, x_in, y_pred, loss,
                    history, processed, n_shuffles >>
    /\ UNCHANGED lambdaVars

\* history.append(loss.item())
HistoryAppendTwice(h, l) == Append(Append(h, l), l)
HistoryAppend(h, l) == Append(h, l)

\* history.append(loss.item()), then the next pass of for e in range(epoches)
AppendHistory ==
    /\ pc = "append"
    /\ history' = HistoryAppend(history, loss)
    /\ e' = IF e + 1 < epoches THEN e + 1 ELSE e
    /\ pc' = IF e + 1 < epoches THEN "shuffle" ELSE "done"
    /\ UNCHANGED << t, x, y, rand_perm, x_perm, y_perm, kwargs, model, grad, optimizer,
                    x_in, y_pred, loss, ops, processed, n_shuffles, model_pre >>
    /\ UNCHANGED lambdaVars

Next ==
    \/ Shuffle
    \/ ForwardPass
    \/ ComputeLoss
    \/ ZeroGradients
    \/ Backpropagate
    \/ OptimizerStep
    \/ AppendHistory

Spec == Init /\ [][Next]_vars

\* the cell runs to its end: every enabled statement is eventually executed
FairSpec == Spec /\ WF_vars(Next)

(* ---- a free-standing Linear layer -------------------------------------- *)
\* the ways of calling Linear(...): both, one or none of the arguments given
Dims == 1..MaxDim
KwargsSet ==
    {[units |-> u, input_dim |-> d] : u \in Dims, d \in Dims}
        \cup {[units |-> u] : u \in Dims}
        \cup {[input_dim |-> d] : d \in Dims}
        \cup {<< >>}

\* the targets of a batch of inputs: y = 3 * x + 5 on the first feature
Targets(a, u) == [i \in 1..Len(a) |-> [j \in 1..u |-> TrueSlope * a[i][1] + TrueBias]]

trainVars == << e, t, x, y, rand_perm, x_perm, y_perm, history, ops, processed, n_shuffles >>

InitLinear ==
    /\ \E kw \in KwargsSet, seed \in Seeds :
          /\ kwargs = kw
          /\ model = LinearInit(kw, seed)
    /\ optimizer = AdamInit(Parameters(model))
    /\ grad = [w |-> None, b |-> None]
    /\ pc = "lin_ready"
    /\ x_in = None /\ y_pred = None /\ loss = None
    /\ model_pre = model
    /\ e = 0 /\ t = 0 /\ x = None /\ y = None
    /\ rand_perm = None /\ x_perm = None /\ y_perm = None
    /\ history = << >> /\ ops = << >> /\ processed = << >> /\ n_shuffles = 0
    /\ func = None /\ func_arg = None /\ inputs = None /\ outputs = None /\ calls = 0

\* y_pred = layer(a) for an input a of shape (n, input_dim)
LinForward ==
    /\ pc = "lin_ready"
    /\ \E seed \in Seeds, n \in 1..MaxRows :
          /\ x_in' = Rand2(seed, n, Len(model.w))
          /\ y_pred' = Forward(model, Rand2(seed, n, Len(model.w)))
    /\ pc' = "lin_fwd"
    /\ UNCHANGED << kwargs, model, grad, optimizer, loss, model_pre >>
    /\ UNCHANGED trainVars
    /\ UNCHANGED lambdaVars

\* loss = criterion(y_pred, target); optimizer.zero_grad(); loss.backward();
\* optimizer.step() on the layer
LinTrain ==
    /\ pc = "lin_fwd"
    /\ optimizer.step < MaxRounds
    /\ loss' = MSELoss(y_pred, Targets(x_in, Len(model.b)))
    /\ \E set_to_none \in BOOLEAN :
          /\ grad' = Backward(ZeroGrad(grad, optimizer.params, set_to_none),
                              x_in, y_pred, Targets(x_in, Len(model.b)))
    /\ model' = AdamStepModel(model, grad', optimizer)
    /\ optimizer' = AdamStepState(grad', optimizer)
    /\ model_pre' = model
    /\ pc' = "lin_ready"
    /\ UNCHANGED << kwargs, x_in, y_pred >>
    /\ UNCHANGED trainVars
    /\ UNCHANGED lambdaVars

NextLinear ==
    \/ LinForward
    \/ LinTrain

SpecLinear == InitLinear /\ [][NextLinear]_vars

(* ---- class MyLambda ---------------------------------------------------- *)
\* the functions handed to MyLambda: x -> k * x + c, applied to a tensor
Funcs == {[k |-> k, c |-> c] : k \in 0..MaxK, c \in 0..MaxC}
Apply(fn, v) == [i \in 1..Len(v) |-> fn.k * v[i] + fn.c]

Vectors == UNION {[1..n -> 0..MaxV] : n \in 1..MaxLen}

\* MyLambda.__init__(func): self.func = func
MyLambdaInit(fn) == fn

\* MyLambda.forward(inputs): return self.func(inputs)
MyLambdaForwardIdentity(fn, v) == v
MyLambdaForward(fn, v) == Apply(fn, v)

InitLambda ==
    /\ \E fn \in Funcs :
          /\ func_arg = fn
          /\ func = MyLambdaInit(fn)
    /\ inputs = None /\ outputs = None /\ calls = 0
    /\ pc = "lambda"
    /\ kwargs = << >> /\ model = None /\ grad = None /\ optimizer = None
    /\ x_in = None /\ y_pred = None /\ loss = None /\ model_pre = None
    /\ e = 0 /\ t = 0 /\ x = None /\ y = None
    /\ rand_perm = None /\ x_perm = None /\ y_perm = None
    /\ history = << >> /\ ops = << >> /\ processed = << >> /\ n_shuffles = 0

\* layer(v): Module.__call__ runs forward
LambdaCall ==
    /\ pc = "lambda"
    /\ calls < MaxCalls
    /\ \E v \in Vectors :
          /\ inputs' = v
          /\ outputs' = MyLambdaForward(func, v)
    /\ calls' = calls + 1
    /\ UNCHANGED << pc, func, func_arg, kwargs, model, grad, optimizer, x_in, y_pred,
                    loss, model_pre >>
    /\ UNCHANGED trainVars

NextLambda ==
    \/ LambdaCall

SpecLambda == InitLambda /\ [][NextLambda]_vars

(* ======================================================================== *)
(* Properties                                                               *)
(* ======================================================================== *)
\* sum of f over the index set S, written independently of SumSeq
RECURSIVE SumFn(_, _)
SumFn(f, S) ==
    IF S = {} THEN 0
    ELSE LET k == CHOOSE k \in S : TRUE IN f[k] + SumFn(f, S \ {k})

LoopBody == {"forward", "loss", "zero_grad", "backward", "step"}

(* ---- C1 ---------------------------------------------------------------- *)
\* C1: Linear.forward computes the affine map: for an input x of shape
\* (n, input_dim) and the current parameters w, b, the result has
\* out[i][j] = sum over k of x[i][k] * w[k][j] + b[j] for every row i and
\* unit j, the same b being added to every row.
C1_ForwardIsAffine ==
    pc = "lin_fwd" =>
        /\ DOMAIN y_pred = DOMAIN x_in
        /\ \A i \in DOMAIN x_in :
              /\ DOMAIN y_pred[i] = DOMAIN model.b
              /\ \A j \in DOMAIN model.b :
                    y_pred[i][j] =
                        SumFn([k \in DOMAIN model.w |-> x_in[i][k] * model.w[k][j]],
                              DOMAIN model.w) + model.b[j]

\* a forward pass of a 2x2 layer on two rows, after training moved b off zero
C1_Witness ==
    /\ pc = "lin_fwd"
    /\ Len(x_in) = 2
    /\ Shape2(model.w) = << 2, 2 >>
    /\ optimizer.step > 0
    /\ \A j \in DOMAIN model.b : model.b[j] # 0

(* ---- C2 ---------------------------------------------------------------- *)
Order == << "forward", "loss", "zero_grad", "backward", "step" >>

\* number of statements of the current iteration already executed
DoneInIteration ==
    CASE pc = "loss" -> 1
      [] pc = "zero_grad" -> 2
      [] pc = "backward" -> 3
      [] pc = "step" -> 4
      [] OTHER -> 0

\* number of batch iterations completed, from the loop counters
IterationsCompleted ==
    CASE pc = "shuffle" -> e * n_batches
      [] pc \in {"append", "done"} -> (e + 1) * n_batches
      [] OTHER -> e * n_batches + t

\* C2: every batch iteration performs forward pass, loss computation, gradient
\* zeroing, backpropagation and optimizer step in this order, each exactly
\* once: the log of operations is a repetition of that five-step sequence, one
\* full repetition per completed iteration, so no optimizer step happens
\* without zero_grad and backward before it in the same iteration and no
\* forward pass starts before the optimizer step of the previous batch.
C2_FixedOrder ==
    /\ \A i \in 1..Len(ops) : ops[i] = Order[((i - 1) % 5) + 1]
    /\ Len(ops) = 5 * IterationsCompleted + DoneInIteration
    /\ optimizer.step = IterationsCompleted

C2_Witness ==
    /\ pc = "done"
    /\ Len(ops) = 5 * n_batches * epoches

(* ---- C3 ---------------------------------------------------------------- *)
\* C3: a MyLambda layer built with f stores f and applies it: every call on v
\* returns f(v), and the stored function is still f after any number of calls;
\* MyLambda(lambda x: 2*x) maps [1, 2] to [2, 4].
C3_LambdaApplies ==
    pc = "lambda" =>
        /\ func = func_arg
        /\ calls > 0 =>
              /\ DOMAIN outputs = DOMAIN inputs
              /\ \A i \in DOMAIN inputs : outputs[i] = func_arg.k * inputs[i] + func_arg.c
        /\ (calls > 0 /\ func_arg = [k |-> 2, c |-> 0] /\ inputs = << 1, 2 >>)
              => outputs = << 2, 4 >>

\* the notebook's example, as a second call of the layer
C3_Witness ==
    /\ pc = "lambda"
    /\ calls = 2
    /\ func_arg = [k |-> 2, c |-> 0]
    /\ inputs = << 1, 2 >>
    /\ outputs = << 2, 4 >>

(* ---- C4 ---------------------------------------------------------------- *)
\* C4: in every epoch a fresh permutation of 0..n_batches-1 is drawn before
\* the first batch is processed, and during the epoch every batch is processed
\* exactly once, in the permuted order.
C4_ShuffledEpoch ==
    /\ pc = "shuffle" => n_shuffles = e
    /\ pc \in LoopBody \cup {"append", "done"} =>
          /\ n_shuffles = e + 1
          /\ DOMAIN rand_perm = Batches
          /\ \A i \in Batches : Cardinality({k \in Batches : rand_perm[k] = i}) = 1
          /\ x_perm = [k \in Batches |-> x[rand_perm[k]]]
          /\ y_perm = [k \in Batches |-> y[rand_perm[k]]]
          /\ Len(processed) =
                (IF pc = "forward" THEN t
                 ELSE IF pc \in {"append", "done"} THEN n_batches ELSE t + 1)
          /\ \A k \in 1..Len(processed) : processed[k] = x[rand_perm[k - 1]]
    /\ pc \in {"append", "done"} =>
          \A i \in Batches :
              Cardinality({k \in 1..Len(processed) : processed[k] = x[i]}) = 1

\* the end of the second epoch, run in an order other than 0, 1, 2, ...
C4_Witness ==
    /\ pc = "append"
    /\ e = 1
    /\ rand_perm[0] # 0
    /\ Len(processed) = n_batches

(* ---- C5 ---------------------------------------------------------------- *)
\* C5: the parameters handed to the optimizer are exactly w and b, and an
\* optimizer step changes nothing but w, b and the optimizer's own state: the
\* inputs x, the targets y, the permutation and the history stay as they are
\* (as do the gradients, the prediction and the loss).
C5_StepFrame ==
    /\ [](optimizer.params = {"w", "b"})
    /\ [][pc = "step" =>
            /\ x' = x /\ y' = y
            /\ rand_perm' = rand_perm /\ x_perm' = x_perm /\ y_perm' = y_perm
            /\ history' = history
            /\ grad' = grad /\ x_in' = x_in /\ y_pred' = y_pred /\ loss' = loss
            /\ optimizer'.params = optimizer.params]_vars

\* an optimizer step has just changed both w and b
C5_Witness ==
    /\ pc = "forward"
    /\ optimizer.step > 0
    /\ model.w # model_pre.w
    /\ model.b # model_pre.b
    /\ optimizer.exp_avg.w # None

(* ---- C6 ---------------------------------------------------------------- *)
\* the arguments of the constructor, with the defaults the claim states
C6_units == IF "units" \in DOMAIN kwargs THEN kwargs.units ELSE 32
C6_input_dim == IF "input_dim" \in DOMAIN kwargs THEN kwargs.input_dim ELSE 32

\* C6: after Linear(units=u, input_dim=d) (defaults 32, 32) w has shape (d, u)
\* and b has shape (u,) with every entry zero; no forward pass and no training
\* step changes these shapes, and a forward pass on an input of shape (n, d)
\* yields an output of shape (n, u).
C6_Shapes ==
    /\ Len(model.w) = C6_input_dim
    /\ \A i \in DOMAIN model.w : Len(model.w[i]) = C6_units
    /\ Len(model.b) = C6_units
    /\ optimizer.step = 0 => \A j \in DOMAIN model.b : model.b[j] = 0
    /\ pc = "lin_fwd" =>
          /\ \A i \in DOMAIN x_in : Len(x_in[i]) = C6_input_dim
          /\ Len(y_pred) = Len(x_in)
          /\ \A i \in DOMAIN y_pred : Len(y_pred[i]) = C6_units

\* a layer built with the defaults, after a training step and a forward pass
C6_Witness ==
    /\ kwargs = << >>
    /\ pc = "lin_fwd"
    /\ optimizer.step > 0
    /\ Len(x_in) = 2
    /\ Shape2(model.w) = << 32, 32 >>

(* ---- C7 ---------------------------------------------------------------- *)
\* the batch at position t of the permuted data, and the error of the current
\* parameters on its row i
C7_xb == x[rand_perm[t]]
C7_yb == y[rand_perm[t]]
C7_err(i) == C7_xb[i][1] * model.w[1][1] + model.b[1] - C7_yb[i][1]

\* C7: gradients never accumulate across batches: at each optimizer step the
\* gradient held for w and for b is the gradient of the current batch's loss
\* only.
C7_NoAccumulation ==
    pc = "step" =>
        /\ grad.w = << << SumFn([i \in 1..batch_size |-> 2 * C7_err(i) * C7_xb[i][1]],
                                1..batch_size) >> >>
        /\ grad.b = << SumFn([i \in 1..batch_size |-> 2 * C7_err(i)], 1..batch_size) >>

\* an optimizer step of the second epoch, with a gradient that is not zero
C7_Witness ==
    /\ pc = "step"
    /\ e = 1
    /\ t > 0
    /\ grad.w[1][1] # 0
    /\ grad.b[1] # 0

(* ---- C8 ---------------------------------------------------------------- *)
\* the loss of the batch at the last position of the permutation, under the
\* parameters as they were before the last optimizer step
C8_last == rand_perm[n_batches - 1]
C8_LastLoss ==
    SumFn([i \in 1..batch_size |->
              (x[C8_last][i][1] * model_pre.w[1][1] + model_pre.b[1] - y[C8_last][i][1])
                * (x[C8_last][i][1] * model_pre.w[1][1] + model_pre.b[1] - y[C8_last][i][1])],
          1..batch_size)

\* C8: history grows by exactly one entry per completed epoch and has epoches
\* entries after the loop; the entry of an epoch is the loss of the last batch
\* processed in it, evaluated with the parameters as they were before that
\* batch's optimizer step; entries once written are never changed.
C8_History ==
    /\ [](/\ Len(history) = (IF pc = "done" THEN epoches ELSE e)
          /\ (Len(history) > 0 /\ pc \in {"shuffle", "done"}) =>
                history[Len(history)] = C8_LastLoss)
    /\ [][/\ Len(history') \in {Len(history), Len(history) + 1}
          /\ SubSeq(history', 1, Len(history)) = history
          /\ Len(history') = Len(history) + 1 <=> pc = "append"]_vars

\* the loop is over and history holds one loss per epoch
C8_Witness ==
    /\ pc = "done"
    /\ Len(history) = epoches
    /\ history[Len(history)] > 0
    /\ model_pre # model

(* ---- C9 ---------------------------------------------------------------- *)
\* C9: the training loop always terminates, and when it has, exactly
\* epoches * n_batches optimizer steps have been performed.
C9_Terminates ==
    /\ <>(pc = "done")
    /\ [](pc = "done" => optimizer.step = epoches * n_batches)

C9_Witness ==
    /\ pc = "done"
    /\ optimizer.step = epoches * n_batches

====
